---- MODULE Spec2Model ----
(***************************************************************************)
(* Model of the two scripts of ansible-node-tests:                         *)
(*   scripts/connect_via_websockets_engine.py  (authenticated Engine API   *)
(*       call: JWT issuance, handshake with a bearer header, one request,   *)
(*       one receive)                                                      *)
(*   scripts/connect_via_websockets.py         (newHeads subscription and  *)
(*       the loop over the pushed notifications)                           *)
(* Characters and bytes are their ASCII codes.  The peer, the clock and    *)
(* the secret file are inputs.                                             *)
(***************************************************************************)
EXTENDS Integers, Sequences, FiniteSets, TLC

\* ---------------------------------------------------------------- bounds
MaxSecretLen == 3      \* longest content of the secret file, in characters
MaxFrames    == 3      \* frames the peer delivers during one run

\* ------------------------------------------------------------ characters
DOT   == 46            \* "."
PAD   == 61            \* "="

IsSpace(c) == c \in {9, 10, 11, 12, 13, 32}

IsHex(c) == (c >= 48 /\ c <= 57) \/ (c >= 97 /\ c <= 102) \/ (c >= 65 /\ c <= 70)

HexVal(c) == IF c <= 57 THEN c - 48 ELSE IF c >= 97 THEN c - 87 ELSE c - 55

\* str.strip(): leading and trailing whitespace removed
RECURSIVE LStrip(_)
LStrip(s) == IF s # <<>> /\ IsSpace(Head(s)) THEN LStrip(Tail(s)) ELSE s

RECURSIVE RStrip(_)
RStrip(s) == IF s # <<>> /\ IsSpace(s[Len(s)]) THEN RStrip(SubSeq(s, 1, Len(s) - 1)) ELSE s

Strip(s) == RStrip(LStrip(s))

\* bytes.fromhex(): whitespace is skipped before each pair of digits, never
\* inside a pair; anything else that is not two hexadecimal digits raises
\* ValueError.
RECURSIVE FromHexAt(_, _, _)
FromHexAt(s, i, acc) ==
    IF i > Len(s) THEN [ok |-> TRUE, bytes |-> acc]
    ELSE IF IsSpace(s[i]) THEN FromHexAt(s, i + 1, acc)
    ELSE IF ~IsHex(s[i]) THEN [ok |-> FALSE, bytes |-> <<>>]
    ELSE IF i + 1 > Len(s) \/ ~IsHex(s[i + 1]) THEN [ok |-> FALSE, bytes |-> <<>>]
    ELSE FromHexAt(s, i + 2, Append(acc, 16 * HexVal(s[i]) + HexVal(s[i + 1])))

fromhex(s) == FromHexAt(s, 1, <<>>)

\* the URL-safe base64 alphabet: A-Z a-z 0-9 - _
B64Char(v) ==
    IF v < 26 THEN 65 + v
    ELSE IF v < 52 THEN 97 + (v - 26)
    ELSE IF v < 62 THEN 48 + (v - 52)
    ELSE IF v = 62 THEN 45 ELSE 95

\* base64.urlsafe_b64encode(): every three bytes give four characters, the
\* last group is padded with "="; character j of the output
urlsafe_b64encode(d) ==
    LET n == Len(d)
        byte(i) == IF i <= n THEN d[i] ELSE 0
    IN  [j \in 1..(4 * ((n + 2) \div 3)) |->
            LET g  == (j - 1) \div 4
                k  == (j - 1) % 4
                b1 == byte(3 * g + 1)
                b2 == byte(3 * g + 2)
                b3 == byte(3 * g + 3)
            IN  IF k = 0 THEN B64Char(b1 \div 4)
                ELSE IF k = 1 THEN B64Char((b1 % 4) * 16 + b2 \div 16)
                ELSE IF k = 2 THEN (IF 3 * g + 2 > n THEN PAD
                                    ELSE B64Char((b2 % 16) * 4 + b3 \div 64))
                ELSE (IF 3 * g + 3 > n THEN PAD ELSE B64Char(b3 % 64))]

\* bytes.rstrip(b"=")
RECURSIVE RStripPad(_)
RStripPad(s) == IF s # <<>> /\ s[Len(s)] = PAD THEN RStripPad(SubSeq(s, 1, Len(s) - 1)) ELSE s

b64url(data) == RStripPad(urlsafe_b64encode(data))

\* b'{"alg":"HS256","typ":"JWT"}'
HeaderBytes ==
    << 123, 34, 97, 108, 103, 34, 58, 34, 72, 83, 50, 53, 54, 34, 44,
       34, 116, 121, 112, 34, 58, 34, 74, 87, 84, 34, 125 >>

\* str(n) for n >= 0
RECURSIVE Decimal(_)
Decimal(n) == IF n < 10 THEN << 48 + n >> ELSE Append(Decimal(n \div 10), 48 + (n % 10))

\* json.dumps({"iat": n}, separators=(",",":")).encode()  =  {"iat":n}
IatJson(n) == << 123, 34, 105, 97, 116, 34, 58 >> \o Decimal(n) \o << 125 >>

\* time.time() is read in ticks of 1/TicksPerSec second; int() truncates
TicksPerSec == 2

IntTime(t) == t \div TicksPerSec

\* hmac.new(key, msg, sha256).digest(): the library's digest is abstracted as
\* a keyed checksum of DigestSize bytes that depends on every byte of the
\* key and of the message and on their positions.
DigestSize == 32

RECURSIVE Mix(_, _, _)
Mix(s, lo, hi) ==
    IF lo > hi THEN 0
    ELSE IF lo = hi THEN ((s[lo] + 1) * (lo * lo + 3 * lo + 1)) % 65521
    ELSE LET mid == (lo + hi) \div 2
         IN  (Mix(s, lo, mid) + Mix(s, mid + 1, hi)) % 65521

hmac_digest(key, msg) ==
    LET k == (Mix(key, 1, Len(key)) + 7 * Len(key)) % 65521
        m == (Mix(msg, 1, Len(msg)) + 13 * Len(msg) + 5 * k) % 65521
    IN  [i \in 1..DigestSize |-> (m * i + k + (m \div 256) + i * i) % 256]

\* variant: the signature covers the payload segment only
make_engine_jwt_payload_signed(secret_hex, now) ==
    LET secret  == fromhex(secret_hex)
        header  == b64url(HeaderBytes)
        payload == b64url(IatJson(IntTime(now)))
        sig     == b64url(hmac_digest(secret.bytes, payload))
    IN  IF ~secret.ok THEN [ok |-> FALSE, token |-> <<>>]
        ELSE [ok |-> TRUE, token |-> header \o << DOT >> \o payload \o << DOT >> \o sig]

make_engine_jwt(secret_hex, now) ==
    LET secret        == fromhex(secret_hex)
        header        == b64url(HeaderBytes)
        payload       == b64url(IatJson(IntTime(now)))
        signing_input == header \o << DOT >> \o payload
        sig           == b64url(hmac_digest(secret.bytes, signing_input))
    IN  IF ~secret.ok THEN [ok |-> FALSE, token |-> <<>>]
        ELSE [ok |-> TRUE, token |-> header \o << DOT >> \o payload \o << DOT >> \o sig]

\* ---------------------------------------------------------------- inputs
\* characters a secret file is made of: "a", "1", "g" (no hexadecimal digit)
\* and the newline
SecretChars == {97, 49, 103, 10}

RECURSIVE Texts(_)
Texts(n) ==
    IF n = 0 THEN { <<>> }
    ELSE LET shorter == Texts(n - 1)
         IN  shorter \cup { Append(s, c) : s \in { t \in shorter : Len(t) = n - 1 }, c \in SecretChars }

\* the instants at which time.time() may be read: two inside second 9, two
\* inside second 10
Times == {18, 19, 20, 21}

ReqId == 1             \* "id":1 of the Engine API request

PeerIds == {1, 2}      \* ids the peer may put in a Response frame

SubIds == {1, 2}       \* subscription ids the peer may assign ("0x1", "0x2")

Payloads == {16, 17}   \* block numbers pushed by the peer ("0x10", "0x11")

NoFrame == [kind |-> "none", id |-> 0, body |-> 0]

\* ----------------------------------------------------------------- state
VARIABLES
    prog,        \* which script runs: "engine" or "subscribe"
    pc,          \* the statement the script is at
    file_text,   \* content of local-deployment/jwtsecret
    JWT_SECRET,  \* module global JWT_SECRET
    JWT,         \* module global JWT (<<>> before it is assigned)
    issued,      \* tokens returned by make_engine_jwt, with their read of the clock
    session,     \* "Closed", "Connecting" or "Running"
    socket_open, \* the process holds the socket
    link,        \* "down", "up", or "lost" (end-of-stream or transport error)
    handshakes,  \* headers of the opening handshakes sent so far
    sent,        \* texts sent over the established connection
    inbound,     \* frames delivered by the peer and not yet received
    arrived,     \* every frame the peer delivered, in arrival order
    reply,       \* local variable reply of the engine script
    sub_id,      \* local variable sub_id of the subscription script (0: unset)
    yielded,     \* messages the async for loop has been handed and printed
    exc,         \* exception propagating out of main / the module, or "none"
    exit         \* "running", "ok" (exit status 0) or "crashed" (traceback)

vars == << prog, pc, file_text, JWT_SECRET, JWT, issued, session, socket_open,
           link, handshakes, sent, inbound, arrived, reply, sub_id, yielded,
           exc, exit >>

tokenVars == << file_text, JWT_SECRET, JWT, issued >>

wireVars == << session, socket_open, link, handshakes, sent, inbound, arrived >>

localVars == << reply, sub_id, yielded >>

\* ---------------------------------------------------------------- texts
\* json.dumps(req):
\* {"jsonrpc": "2.0", "id": 1, "method": "engine_exchangeCapabilities", "params": [[]]}
\* variant: the request text carries the token as well
EngineRequestWithToken == << 123, 34 >> \o JWT \o << 34, 125 >>

EngineRequestText ==
    << 123, 34, 106, 115, 111, 110, 114, 112, 99, 34, 58, 32, 34, 50, 46, 48,
       34, 44, 32, 34, 105, 100, 34, 58, 32, 48 + ReqId, 44, 32, 34, 109, 101,
       116, 104, 111, 100, 34, 58, 32, 34, 101, 110, 103, 105, 110, 101, 95,
       101, 120, 99, 104, 97, 110, 103, 101, 67, 97, 112, 97, 98, 105, 108,
       105, 116, 105, 101, 115, 34, 44, 32, 34, 112, 97, 114, 97, 109, 115,
       34, 58, 32, 91, 91, 93, 93, 125 >>

\* the request w3.eth.subscribe("newHeads") puts on the wire:
\* {"jsonrpc": "2.0", "method": "eth_subscribe", "params": ["newHeads"], "id": 0}
SubscribeRequestText ==
    << 123, 34, 106, 115, 111, 110, 114, 112, 99, 34, 58, 32, 34, 50, 46, 48,
       34, 44, 32, 34, 109, 101, 116, 104, 111, 100, 34, 58, 32, 34, 101, 116,
       104, 95, 115, 117, 98, 115, 99, 114, 105, 98, 101, 34, 44, 32, 34, 112,
       97, 114, 97, 109, 115, 34, 58, 32, 91, 34, 110, 101, 119, 72, 101, 97,
       100, 115, 34, 93, 44, 32, 34, 105, 100, 34, 58, 32, 48, 125 >>

\* f"Bearer {JWT}"
Bearer(tok) == << 66, 101, 97, 114, 101, 114, 32 >> \o tok

\* variant: the header carries a token kept from an earlier run
HeadersCached(tok) == [Authorization |-> Bearer(make_engine_jwt(<<>>, 0).token)]

\* headers = {"Authorization": f"Bearer {JWT}"}
Headers(tok) == [Authorization |-> Bearer(tok)]

\* the subscription script connects without additional headers
NoHeaders == [Authorization |-> <<>>]

Init ==
    /\ prog \in {"engine", "subscribe"}
    /\ file_text \in (IF prog = "engine" THEN Texts(MaxSecretLen) ELSE { <<>> })
    /\ pc = (IF prog = "engine" THEN "load_secret" ELSE "run_main")
    /\ JWT_SECRET = <<>>
    /\ JWT = <<>>
    /\ issued = <<>>
    /\ session = "Closed"
    /\ socket_open = FALSE
    /\ link = "down"
    /\ handshakes = <<>>
    /\ sent = <<>>
    /\ inbound = <<>>
    /\ arrived = <<>>
    /\ reply = NoFrame
    /\ sub_id = 0
    /\ yielded = <<>>
    /\ exc = "none"
    /\ exit = "running"

\* an uncaught exception reaches the top level of the module: traceback,
\* exit status 1
ExitStatus(e) == IF e = "none" THEN "ok" ELSE "crashed"

\* --------------------------------------------------- engine script, module
\* JWT_SECRET = pathlib.Path(...).read_text().strip()
LoadSecret ==
    /\ prog = "engine" /\ pc = "load_secret"
    /\ JWT_SECRET' = Strip(file_text)
    /\ pc' = "issue"
    /\ UNCHANGED << prog, file_text, JWT, issued, wireVars, localVars, exc, exit >>

\* JWT = make_engine_jwt(JWT_SECRET); the ValueError of bytes.fromhex is not
\* caught anywhere
IssueJWT ==
    /\ prog = "engine" /\ pc = "issue"
    /\ \E now \in Times :
         LET r == make_engine_jwt(JWT_SECRET, now)
         IN  IF r.ok
             THEN /\ JWT' = r.token
                  /\ issued' = Append(issued, [token |-> r.token, at |-> now])
                  /\ pc' = "run_main"
                  /\ UNCHANGED << exc, exit >>
             ELSE /\ exc' = "ValueError"
                  /\ exit' = ExitStatus("ValueError")
                  /\ pc' = "done"
                  /\ UNCHANGED << JWT, issued >>
    /\ UNCHANGED << prog, file_text, JWT_SECRET, wireVars, localVars >>

\* ------------------------------------------------------ opening a session
\* variant: the connection is attempted again after a failed handshake
RetryOnHandshakeError == "run_main"

\* where the script continues when the opening handshake raises: nothing
\* catches it, main and asyncio.run end
OnHandshakeError == "done"

\* asyncio.run(main()): main builds the headers and enters the async with;
\* the handshake request goes out
Connect ==
    /\ pc = "run_main"
    /\ session = "Closed"
    /\ session' = "Connecting"
    /\ socket_open' = TRUE
    /\ handshakes' = Append(handshakes, IF prog = "engine" THEN Headers(JWT) ELSE NoHeaders)
    /\ pc' = "handshake"
    /\ UNCHANGED << prog, tokenVars, link, sent, inbound, arrived, localVars, exc, exit >>

\* the peer accepts the handshake: __aenter__ returns the connection
HandshakeOK ==
    /\ pc = "handshake"
    /\ session' = "Running"
    /\ link' = "up"
    /\ pc' = (IF prog = "engine" THEN "send" ELSE "subscribe")
    /\ UNCHANGED << prog, tokenVars, socket_open, handshakes, sent, inbound, arrived,
                    localVars, exc, exit >>

\* the peer rejects the handshake or the socket fails: __aenter__ raises, the
\* library drops the socket, the body of the async with never runs
HandshakeFail ==
    /\ pc = "handshake"
    /\ session' = "Closed"
    /\ socket_open' = FALSE
    /\ pc' = OnHandshakeError
    /\ exc' = (IF OnHandshakeError = "done" THEN "InvalidHandshake" ELSE exc)
    /\ exit' = (IF OnHandshakeError = "done" THEN ExitStatus("InvalidHandshake") ELSE exit)
    /\ UNCHANGED << prog, tokenVars, link, handshakes, sent, inbound, arrived, localVars >>

\* ------------------------------------------------------------------ peer
\* frames the peer may deliver next.  To the engine script: a Response with
\* any id, or a frame that is not JSON.  To the subscription script: the
\* Response to eth_subscribe carrying the subscription id, once the request
\* was sent, and after it notifications for that subscription.
PeerFrames ==
    IF prog = "engine"
    THEN { [kind |-> "resp", id |-> i, body |-> 0] : i \in PeerIds }
         \cup { [kind |-> "junk", id |-> 0, body |-> 0] }
    ELSE IF sent = <<>> THEN {}
    ELSE IF arrived = <<>> THEN { [kind |-> "resp", id |-> 0, body |-> s] : s \in SubIds }
    ELSE { [kind |-> "notif", id |-> arrived[1].body, body |-> p] : p \in Payloads }

PeerDeliver ==
    /\ session = "Running" /\ link = "up"
    /\ Len(arrived) < MaxFrames
    /\ \E f \in PeerFrames :
         /\ inbound' = Append(inbound, f)
         /\ arrived' = Append(arrived, f)
    /\ UNCHANGED << prog, pc, tokenVars, session, socket_open, link, handshakes, sent,
                    localVars, exc, exit >>

\* end-of-stream or a transport error while the session runs
PeerDrop ==
    /\ session = "Running" /\ link = "up"
    /\ link' = "lost"
    /\ UNCHANGED << prog, pc, tokenVars, session, socket_open, handshakes, sent, inbound,
                    arrived, localVars, exc, exit >>

\* ------------------------------------------------------ engine script, main
\* await ws.send(json.dumps(req)); raises ConnectionClosed on a lost link
EngineSend ==
    /\ prog = "engine" /\ pc = "send"
    /\ IF link = "up"
       THEN /\ sent' = Append(sent, EngineRequestText)
            /\ pc' = "recv"
            /\ exc' = exc
       ELSE /\ exc' = "ConnectionClosed"
            /\ pc' = "aexit"
            /\ sent' = sent
    /\ UNCHANGED << prog, tokenVars, session, socket_open, link, handshakes, inbound,
                    arrived, localVars, exit >>

\* variant: a receive on a lost link keeps waiting
RecvNeverRaises(lnk, buf) == FALSE

\* a receive on a lost link raises ConnectionClosed once the frames that
\* arrived before the loss have been handed out
RecvRaises(lnk, buf) == lnk = "lost" /\ buf = <<>>

\* reply = await ws.recv(): the next frame, whatever it is; the body of the
\* async with ends after the print
EngineRecv ==
    /\ prog = "engine" /\ pc = "recv"
    /\ \/ /\ inbound # <<>>
          /\ reply' = Head(inbound)
          /\ inbound' = Tail(inbound)
          /\ exc' = exc
       \/ /\ RecvRaises(link, inbound)
          /\ exc' = "ConnectionClosed"
          /\ UNCHANGED << reply, inbound >>
    /\ pc' = "aexit"
    /\ UNCHANGED << prog, tokenVars, session, socket_open, link, handshakes, sent, arrived,
                    sub_id, yielded, exit >>

\* ------------------------------------------------ subscription script, main
\* sub_id = await w3.eth.subscribe("newHeads"): the request goes out
Subscribe ==
    /\ prog = "subscribe" /\ pc = "subscribe"
    /\ IF link = "up"
       THEN /\ sent' = Append(sent, SubscribeRequestText)
            /\ pc' = "subscribe_wait"
            /\ exc' = exc
       ELSE /\ exc' = "ConnectionClosed"
            /\ pc' = "aexit"
            /\ sent' = sent
    /\ UNCHANGED << prog, tokenVars, session, socket_open, link, handshakes, inbound,
                    arrived, localVars, exit >>

\* ... and its Response gives the subscription id
SubscribeAck ==
    /\ prog = "subscribe" /\ pc = "subscribe_wait"
    /\ \/ /\ inbound # <<>>
          /\ sub_id' = Head(inbound).body
          /\ inbound' = Tail(inbound)
          /\ pc' = "loop"
          /\ exc' = exc
       \/ /\ RecvRaises(link, inbound)
          /\ exc' = "ConnectionClosed"
          /\ pc' = "aexit"
          /\ UNCHANGED << sub_id, inbound >>
    /\ UNCHANGED << prog, tokenVars, session, socket_open, link, handshakes, sent, arrived,
                    reply, yielded, exit >>

\* the message process_subscriptions() yields for a notification frame
SubscriptionMessage(f) == [subscription |-> f.id, result |-> f.body]

\* variant: the newest message is put in front of the output
LoopYieldFront(ys, msg) == << msg >> \o ys

\* what one turn of the loop body adds to the output
LoopYield(ys, msg) == Append(ys, msg)

\* async for msg in w3.socket.process_subscriptions(): print(msg)
Loop ==
    /\ prog = "subscribe" /\ pc = "loop"
    /\ \/ /\ inbound # <<>>
          /\ yielded' = LoopYield(yielded, SubscriptionMessage(Head(inbound)))
          /\ inbound' = Tail(inbound)
          /\ UNCHANGED << pc, exc >>
       \/ /\ RecvRaises(link, inbound)
          /\ exc' = "ConnectionClosed"
          /\ pc' = "aexit"
          /\ UNCHANGED << yielded, inbound >>
    /\ UNCHANGED << prog, tokenVars, session, socket_open, link, handshakes, sent, arrived,
                    reply, sub_id, exit >>

\* ------------------------------------------------------------ cancellation
AwaitPoints == {"send", "recv", "subscribe", "subscribe_wait", "loop"}

\* the task running main is cancelled (asyncio.run cancels it on Ctrl-C) while
\* it is suspended in the body of the async with
Cancel ==
    /\ pc \in AwaitPoints
    /\ exc' = "Cancelled"
    /\ pc' = "aexit"
    /\ UNCHANGED << prog, tokenVars, wireVars, localVars, exit >>

\* ------------------------------------------------------- leaving the block
\* variant: the socket is released on normal completion only
SocketKeptOnError(e) == e # "none"

\* whether the process still holds the socket after __aexit__ ran with
\* exception e in flight
SocketAfterExit(e) == FALSE

\* __aexit__ of the async with, on normal completion and on any exception;
\* then main returns or raises and asyncio.run(main()) ends the module
ExitContext ==
    /\ pc = "aexit"
    /\ session' = "Closed"
    /\ socket_open' = SocketAfterExit(exc)
    /\ link' = "down"
    /\ pc' = "done"
    /\ exit' = ExitStatus(exc)
    /\ UNCHANGED << prog, tokenVars, handshakes, sent, inbound, arrived, localVars, exc >>

\* the steps that resume main after an awaited operation completed, and
\* the exit from the async with block
Resume ==
    \/ EngineSend \/ EngineRecv
    \/ Subscribe \/ SubscribeAck \/ Loop
    \/ ExitContext

Next ==
    \/ LoadSecret \/ IssueJWT \/ Connect \/ HandshakeOK \/ HandshakeFail
    \/ PeerDeliver \/ PeerDrop
    \/ EngineSend \/ EngineRecv
    \/ Subscribe \/ SubscribeAck \/ Loop
    \/ Cancel \/ ExitContext

Spec == Init /\ [][Next]_vars

\* the event loop resumes a coroutine whose awaited operation completed
LiveSpec == Spec /\ WF_vars(Resume)

\* ------------------------------------------------------------ properties
\* the segments of a token: the parts between its dots
SplitDot(tok) ==
    LET dots   == { i \in 1..Len(tok) : tok[i] = DOT }
        n      == Cardinality(dots)
        pos(k) == CHOOSE i \in dots : Cardinality({ j \in dots : j < i }) = k - 1
    IN  [k \in 1..(n + 1) |->
            SubSeq(tok, IF k = 1 THEN 1 ELSE pos(k - 1) + 1,
                        IF k = n + 1 THEN Len(tok) ELSE pos(k) - 1)]

\* text holds the non-empty t as a contiguous part
Contains(text, t) ==
    /\ t # <<>>
    /\ \E i \in 1..(Len(text) - Len(t) + 1) : SubSeq(text, i, i + Len(t) - 1) = t

TransportErrors == {"InvalidHandshake", "ConnectionClosed"}

\* C1: the engine call is settled only by a Response frame whose id is the id
\* of the request; a frame with another id arriving first does not settle it.
C1_ReplyMatchesRequest ==
    (prog = "engine" /\ reply # NoFrame) => (reply.kind = "resp" /\ reply.id = ReqId)

C3_SessionClosedOnEveryExit ==
    (pc = "done" \/ exit # "running") => (session = "Closed" /\ ~socket_open)

C3_Witness ==
    /\ pc = "done" /\ exc = "Cancelled"
    /\ sent # <<>> /\ ~socket_open

\* C4: a transport failure (rejected handshake, lost connection) does not end
\* the process abnormally.
C4_TransportFailureNotFatal ==
    exc \in TransportErrors => exit # "crashed"

\* C5: issuance fails and yields no token exactly when the secret is
\* malformed or decodes to no bytes; otherwise it yields a token.
C5_InvalidSecretRejected ==
    (prog = "engine" /\ pc \notin {"load_secret", "issue"}) =>
        LET d == fromhex(JWT_SECRET)
        IN  IF ~d.ok \/ Len(d.bytes) = 0
            THEN exc = "ValueError" /\ JWT = <<>> /\ issued = <<>>
            ELSE JWT # <<>> /\ Len(issued) = 1

\* C6: the token goes out once per connection, as the Authorization Bearer
\* value of the handshake, and no text sent over the connection holds the
\* token or the secret.
C6_TokenOnlyInHandshake ==
    /\ Len(handshakes) <= 1
    /\ \A i \in DOMAIN handshakes :
          handshakes[i].Authorization = (IF prog = "engine" THEN Bearer(JWT) ELSE <<>>)
    /\ (prog = "engine" /\ handshakes # <<>>) => JWT # <<>>
    /\ \A i \in DOMAIN sent :
          ~Contains(sent[i], JWT) /\ ~Contains(sent[i], JWT_SECRET)

C6_Witness ==
    /\ prog = "engine" /\ Len(handshakes) = 1
    /\ sent = << EngineRequestText >>
    /\ JWT_SECRET # <<>>

\* C7: the payloads the loop was handed, followed by those still waiting, are
\* the payloads of the notifications that arrived for the subscription, in
\* arrival order; nothing is handed out before the subscription id is known.
C7_NotificationsInArrivalOrder ==
    prog = "subscribe" =>
        LET Mine(f)     == f.kind = "notif" /\ f.id = sub_id
            Bodies(fs)  == [i \in 1..Len(fs) |-> fs[i].body]
            Results(ms) == [i \in 1..Len(ms) |-> ms[i].result]
        IN  IF sub_id = 0 THEN yielded = <<>>
            ELSE /\ Results(yielded) \o Bodies(SelectSeq(inbound, Mine))
                      = Bodies(SelectSeq(arrived, Mine))
                 /\ \A i \in DOMAIN yielded : yielded[i].subscription = sub_id

C7_Witness ==
    /\ prog = "subscribe" /\ sub_id # 0
    /\ Len(yielded) = 2 /\ yielded[1].result # yielded[2].result

\* C8: an issued token has three dot-joined segments, its third segment is
\* the encoded HMAC, under the decoded secret, of the first segment, a dot and
\* the second segment, and issuing again within the same second gives the
\* same token.
C8_SignatureRecomputes ==
    \A e \in DOMAIN issued :
        LET tok  == issued[e].token
            segs == SplitDot(tok)
        IN  /\ Len(segs) = 3
            /\ segs[3] = b64url(hmac_digest(fromhex(JWT_SECRET).bytes,
                                            segs[1] \o << DOT >> \o segs[2]))
            /\ \A t \in Times :
                  IntTime(t) = IntTime(issued[e].at) =>
                      make_engine_jwt(JWT_SECRET, t).token = tok

C8_Witness ==
    /\ Len(issued) = 1 /\ JWT = issued[1].token
    /\ Len(fromhex(JWT_SECRET).bytes) = 1

\* C9: the session goes Closed, Connecting, Running, Closed (or back to
\* Closed from Connecting when the handshake fails); texts are sent and
\* frames received only in Running; a session that was opened and is Closed
\* stays Closed.
C9_SessionOrder ==
    [][ /\ session' # session =>
              << session, session' >> \in { << "Closed", "Connecting" >>,
                                           << "Connecting", "Running" >>,
                                           << "Connecting", "Closed" >>,
                                           << "Running", "Closed" >> }
        /\ (session = "Closed" /\ handshakes # <<>>) => session' = "Closed"
        /\ (sent' # sent \/ inbound' # inbound) => session = "Running"
      ]_vars

C9_Witness ==
    /\ session = "Closed" /\ handshakes # <<>>
    /\ sent # <<>> /\ arrived # <<>>

====
